---- MODULE Spec2Model ----
(***************************************************************************)
(* Model of the TeensyDMX transmit engine (src/src/Sender.cpp).            *)
(*                                                                         *)
(* Two execution contexts exist: the application, which runs one call at a *)
(* time, statement by statement (the call stack `stack`), and the          *)
(* interrupt context (the port's transmit interrupt and the pacing timer), *)
(* which may run between any two application statements whenever the       *)
(* hardware allows it.                                                     *)
(*                                                                         *)
(* Sender.cpp is modelled from its code.  The declarations of TeensyDMX.h  *)
(* (the Lock scope, pause(), the packet size, kMaxDMXPacketSize, the       *)
(* accessors of the BREAK mode and of the break serial parameters) and the *)
(* hardware send handlers (start, end, setActive, setIRQsEnabled,          *)
(* breakSerialParamsChanged, irqHandler) are not part of the source files  *)
(* at hand; they are modelled from the specification.  The compile-time    *)
(* choices are those of __MK20DX128__ and __MK20DX256__.                   *)
(***************************************************************************)
EXTENDS Integers, Sequences, FiniteSets, TLC

\* ------------------------------------------------------------------------
\*  Bounds of the model
\* ------------------------------------------------------------------------

\* Packets one begin() may complete before the model stops starting more.
MaxPackets == 3

\* The configured packet size (start code + channels) of every Sender.
PacketSize == 2

\* Buffer-changing application calls explored per behaviour.
MaxCalls == 2

\* ------------------------------------------------------------------------
\*  Program constants
\* ------------------------------------------------------------------------

\* Size of the output buffer: the start code and 512 channels.
kMaxDMXPacketSize == 513

\* The number of slots of txInstances.
kNumTxInstances == 7

\* UINT32_MAX, held as the signed 32-bit integer of the same bit pattern.
UINT32_MAX == -1

INT_MAX == 2147483647

INT_MIN == (-2147483647) - 1

NULL == 0

\* The Sender objects of the model and the serial port each was constructed
\* on: 1 and 2 share port 0, 3 is bound to a port unknown to the library.
Senders == {1, 2, 3}

serialIndex(s) == IF s = 3 THEN -1 ELSE 0

Ports == 0 .. (kNumTxInstances - 1)

\* Completion callbacks the application may register.
Callbacks == {NULL, 1}

\* float values handed to setRefreshRate.
NaN == [k |-> "nan", v |-> 0]

Infinity == [k |-> "inf", v |-> 0]

Finite(v) == [k |-> "fin", v |-> v]

Rates == {NaN, Infinity, Finite(-1), Finite(0), Finite(44)}

\* The float 1/d of a power of two d
Reciprocal(d) == [k |-> "rcp", v |-> d]

SlowRates == {Reciprocal(2), Reciprocal(8192)}

\* The timing defaults and the corrections of the timer-driven BREAK and
\* MAB, as compiled for __MK20DX128__ and __MK20DX256__.
kDefaultBreakBaud == 50000

kDefaultBreakTime == 180

kDefaultMABTime == 20

kBreakTimerAdjust == 1

kMABTimerAdjust == 7

\* A serial format is its framing and its two invert bits
\* (kSerialFormatRXINVBit, kSerialFormatTXINVBit): masking the invert bits
\* off leaves the framing alone.
Format(base, rxinv, txinv) == [base |-> base, rxinv |-> rxinv, txinv |-> txinv]

SERIAL_8N1 == Format("8N1", FALSE, FALSE)

kDefaultBreakFormat == SERIAL_8N1

\* format & ~(kSerialFormatTXINVBit | kSerialFormatRXINVBit)
MaskInvert(format) == Format(format.base, FALSE, FALSE)

\* The framings that the switch statements of this build list: SERIAL_8E2
\* and SERIAL_8O2 are compiled in for other chips only, the 9-bit
\* framings with SERIAL_9BIT_SUPPORT only.
SupportedBases == {"7E1", "7O1", "8N1", "8E1", "8O1", "8N2"}

VARIABLES
  alive,             \* the object exists (constructed and not destroyed)
  began,             \* began_
  state,             \* state_: "Idle", "Break" or "Data"
  outputBuf,         \* outputBuf_
  outputBufIndex,    \* outputBufIndex_
  paused,            \* paused_
  resumeCounter,     \* resumeCounter_
  transmitting,      \* transmitting_
  doneTXFunc,        \* doneTXFunc_
  refreshRate,       \* refreshRate_
  breakToBreakTime,  \* breakToBreakTime_
  packetCount,       \* the packet counter of TeensyDMX
  timerArmed,        \* intervalTimer_ is running
  txInstances,       \* the registry read by the TX ISRs
  irqEnabled,        \* per port: the port's interrupt is enabled
  txMode,            \* per port: "INACTIVE", "ACTIVE" or "COMPLETING"
  stack,             \* the application's call stack, innermost frame last
  arg,               \* the arguments of the outermost call
  ret,               \* the result of the last call that returns one
  bufBefore,         \* outputBuf_ of the written Sender when the call began
  nCalls,            \* buffer-changing calls made so far
  ub,                \* undefined behaviour has happened
  armedN,            \* resumeFor(n > 0) under observation, else 0
  sentSince,         \* packets completed since that resumeFor
  cbSince,           \* callback invocations since that resumeFor
  evictedBy,         \* the Sender whose begin() ended this one, else NULL
  breakTime_,        \* breakTime_
  adjustedBreakTime_,  \* adjustedBreakTime_
  mabTime_,          \* mabTime_
  adjustedMABTime_,  \* adjustedMABTime_
  breakBaud_,        \* breakBaud_
  breakFormat_,      \* breakFormat_
  breakUseTimer_,    \* breakUseTimer_
  nTiming,           \* calls of the timing interface made so far
  retTime,           \* the result of the last breakTime() or mabTime()
  notified,          \* the last call told the handler of new parameters
  doneCalled,        \* the last completePacket invoked doneTXFunc_
  beganBefore        \* began_ when the setRefreshRate under way was called

senderVars == <<alive, began, state, outputBuf, outputBufIndex, paused,
                resumeCounter, transmitting, doneTXFunc, refreshRate,
                breakToBreakTime, packetCount, timerArmed>>

hwVars == <<txInstances, irqEnabled, txMode>>

appVars == <<stack, arg, ret, bufBefore, nCalls>>

ghostVars == <<ub, armedN, sentSince, cbSince, evictedBy>>

timingVars == <<breakTime_, adjustedBreakTime_, mabTime_, adjustedMABTime_,
                breakBaud_, breakFormat_, breakUseTimer_>>

callVars == <<nTiming, retTime, notified>>

auxVars == <<timingVars, callVars, doneCalled, beganBefore>>

vars == <<senderVars, hwVars, appVars, ghostVars, auxVars>>

NoArg == [op |-> "none", s |-> NULL, n |-> 0, cb |-> NULL, rate |-> Infinity,
          channel |-> 0, len |-> 0, value |-> 0, arith |-> "wrap",
          t |-> 0, baud |-> 0, format |-> SERIAL_8N1, flag |-> FALSE]

\* The arguments of a call of op on Sender s that takes none.
Call0(op, s) == [NoArg EXCEPT !.op = op, !.s = s]

Min(a, b) == IF a < b THEN a ELSE b

\* ------------------------------------------------------------------------
\*  Construction
\* ------------------------------------------------------------------------

\* A buffer of kMaxDMXPacketSize bytes is held as the function from the
\* indices of its bytes that are not 0 to those bytes: every other byte of
\* indices 0 .. kMaxDMXPacketSize - 1 is 0.
Indices == 0 .. (kMaxDMXPacketSize - 1)

\* outputBuf_{}: all bytes 0
ZeroBuf == [i \in {} |-> 0]

\* buf[i]
Byte(buf, i) == IF i \in DOMAIN buf THEN buf[i] ELSE 0

\* buf with buf[i] = b
Put(buf, i, b) ==
  [j \in (IF b = 0 THEN DOMAIN buf \ {i} ELSE DOMAIN buf \cup {i}) |->
     IF j = i THEN b ELSE buf[j]]

\* 32-bit unsigned values are held as the signed integers of the same bit
\* pattern: UINT32_MAX is -1, and 2^31 and above are the negative numbers.
\* a < b of two uint32_t
ULess(a, b) == IF (a < 0) = (b < 0) THEN a < b ELSE b < 0

\* a + b of two uint32_t, b small and not negative: the sum wraps
UAdd(a, b) == IF a > INT_MAX - b THEN INT_MIN + (a - (INT_MAX - b) - 1)
                                ELSE a + b

\* a - b of two uint32_t, b small and not above a
USub(a, b) == IF a < INT_MIN + b THEN INT_MAX - ((b - 1) - (a - INT_MIN))
                                 ELSE a - b

\* a / b of two uint32_t, a below 2^31 and b not 0
UDiv(a, b) == IF b < 0 THEN 0 ELSE a \div b

\* adjustedBreakTime_ = t + kBreakTimerAdjust
AdjustedBreak(t) == UAdd(t, kBreakTimerAdjust)

\* adjustedMABTime_: 0 if t < kMABTimerAdjust, else t - kMABTimerAdjust
AdjustedMAB(t) ==
  IF ULess(t, kMABTimerAdjust) THEN 0 ELSE USub(t, kMABTimerAdjust)

Init ==
  /\ alive = [s \in Senders |-> TRUE]
  /\ began = [s \in Senders |-> FALSE]
  /\ state = [s \in Senders |-> "Idle"]
  /\ outputBuf = [s \in Senders |-> ZeroBuf]
  /\ outputBufIndex = [s \in Senders |-> 0]
  /\ paused = [s \in Senders |-> FALSE]
  /\ resumeCounter = [s \in Senders |-> 0]
  /\ transmitting = [s \in Senders |-> FALSE]
  /\ doneTXFunc = [s \in Senders |-> NULL]
  /\ refreshRate = [s \in Senders |-> Infinity]
  /\ breakToBreakTime = [s \in Senders |-> 0]
  /\ packetCount = [s \in Senders |-> 0]
  /\ timerArmed = [s \in Senders |-> FALSE]
  /\ txInstances = [p \in Ports |-> NULL]
  /\ irqEnabled = [p \in Ports |-> FALSE]
  /\ txMode = [p \in Ports |-> "INACTIVE"]
  /\ stack = <<>>
  /\ arg = NoArg
  /\ ret = "none"
  /\ bufBefore = ZeroBuf
  /\ nCalls = 0
  /\ ub = FALSE
  /\ armedN = [s \in Senders |-> 0]
  /\ sentSince = [s \in Senders |-> 0]
  /\ cbSince = [s \in Senders |-> 0]
  /\ evictedBy = [s \in Senders |-> NULL]
  /\ breakTime_ = [s \in Senders |-> kDefaultBreakTime]
  /\ adjustedBreakTime_ = [s \in Senders |-> AdjustedBreak(kDefaultBreakTime)]
  /\ mabTime_ = [s \in Senders |-> kDefaultMABTime]
  /\ adjustedMABTime_ = [s \in Senders |-> AdjustedMAB(kDefaultMABTime)]
  /\ breakBaud_ = [s \in Senders |-> kDefaultBreakBaud]
  /\ breakFormat_ = [s \in Senders |-> kDefaultBreakFormat]
  /\ breakUseTimer_ = [s \in Senders |-> FALSE]
  /\ nTiming = 0
  /\ retTime = 0
  /\ notified = FALSE
  /\ doneCalled = [s \in Senders |-> FALSE]
  /\ beganBefore = FALSE

\* ------------------------------------------------------------------------
\*  The application's call stack
\* ------------------------------------------------------------------------

Frame(op, s, pc) == [op |-> op, s |-> s, pc |-> pc, i |-> 0]

Top == stack[Len(stack)]

AppIdle == stack = <<>> /\ ~ub

\* The application is at statement pc of a call on Sender s.
At(s, pc) == /\ ~ub
             /\ stack # <<>>
             /\ Top.s = s
             /\ Top.pc = pc

Goto(pc) == [stack EXCEPT ![Len(stack)].pc = pc]

Return == SubSeq(stack, 1, Len(stack) - 1)

\* Continue the caller at pc once the called frame has returned.
CallThen(pc, frame) == Append(Goto(pc), frame)

\* ------------------------------------------------------------------------
\*  The hardware send handler of a port (start, end, setActive,
\*  setIRQsEnabled), as far as the Sender relies on it
\* ------------------------------------------------------------------------

HasHandler(s) == serialIndex(s) \in Ports

\* sendHandler_->setIRQsEnabled(flag)
setIRQsEnabled(s, flag) == [irqEnabled EXCEPT ![serialIndex(s)] = flag]

\* sendHandler_->setActive()
setActive(s) == [txMode EXCEPT ![serialIndex(s)] = "ACTIVE"]

\* sendHandler_->start(): the serial port is set up with its transmit
\* interrupt attached and enabled; the transmitter is not yet active.
handlerStart(s) == [irq |-> setIRQsEnabled(s, TRUE),
                    mode |-> [txMode EXCEPT ![serialIndex(s)] = "INACTIVE"]]

\* sendHandler_->end(): the port's interrupt is masked and the transmitter
\* is shut down.
handlerEnd(s) == [irq |-> setIRQsEnabled(s, FALSE),
                  mode |-> [txMode EXCEPT ![serialIndex(s)] = "INACTIVE"]]

\* The port's interrupt can be taken now.
IrqCanFire(p) == /\ ~ub
                 /\ irqEnabled[p]
                 /\ txMode[p] # "INACTIVE"

\* ------------------------------------------------------------------------
\*  Sender::begin
\* ------------------------------------------------------------------------

CallBegin(s) ==
  /\ AppIdle
  /\ alive[s]
  /\ stack' = <<Frame("begin", s, "begin0")>>
  /\ arg' = Call0("begin", s)
  /\ ret' = "none"
  /\ UNCHANGED <<senderVars, hwVars, bufBefore, nCalls, ghostVars, auxVars>>

\* if (began_) return; began_ = true; if (serialIndex_ < 0) return;
\* resetPacketCount();
Begin0(s) ==
  /\ At(s, "begin0")
  /\ IF began[s]
       THEN /\ stack' = Return
            /\ UNCHANGED <<began, packetCount, evictedBy>>
       ELSE /\ began' = [began EXCEPT ![s] = TRUE]
            /\ evictedBy' = [evictedBy EXCEPT ![s] = NULL]
            /\ IF serialIndex(s) < 0
                 THEN /\ stack' = Return
                      /\ UNCHANGED packetCount
                 ELSE /\ stack' = Goto("begin_slot")
                      /\ packetCount' = [packetCount EXCEPT ![s] = 0]
  /\ UNCHANGED <<alive, state, outputBuf, outputBufIndex, paused,
                 resumeCounter, transmitting, doneTXFunc, refreshRate,
                 breakToBreakTime, timerArmed, hwVars, arg, ret, bufBefore,
                 nCalls, ub, armedN, sentSince, cbSince, auxVars>>

\* A begin() that takes the slot and leaves its occupant as it is.
BeginSlotNoEnd(s) ==
  /\ At(s, "begin_slot")
  /\ txInstances' = [txInstances EXCEPT ![serialIndex(s)] = s]
  /\ stack' = Goto("begin_xmit")
  /\ UNCHANGED <<senderVars, irqEnabled, txMode, arg, ret, bufBefore, nCalls,
                 ghostVars, auxVars>>

\* Sender *s = txInstances[serialIndex_]; txInstances[serialIndex_] = this;
\* if (s != nullptr && s != this) s->end();
BeginSlot(s) ==
  /\ At(s, "begin_slot")
  /\ LET prev == txInstances[serialIndex(s)] IN
       /\ txInstances' = [txInstances EXCEPT ![serialIndex(s)] = s]
       /\ IF prev # NULL /\ prev # s
            THEN /\ stack' = CallThen("begin_xmit", Frame("end", prev, "end0"))
                 /\ armedN' = [armedN EXCEPT ![prev] = 0]
                 /\ evictedBy' = [evictedBy EXCEPT ![prev] = s]
            ELSE /\ stack' = Goto("begin_xmit")
                 /\ UNCHANGED <<armedN, evictedBy>>
  /\ UNCHANGED <<senderVars, irqEnabled, txMode, arg, ret, bufBefore, nCalls,
                 ub, sentSince, cbSince, auxVars>>

\* transmitting_ = false; state_ = XmitStates::kIdle;
BeginXmit(s) ==
  /\ At(s, "begin_xmit")
  /\ transmitting' = [transmitting EXCEPT ![s] = FALSE]
  /\ state' = [state EXCEPT ![s] = "Idle"]
  /\ stack' = Goto("begin_start")
  /\ UNCHANGED <<alive, began, outputBuf, outputBufIndex, paused,
                 resumeCounter, doneTXFunc, refreshRate, breakToBreakTime,
                 packetCount, timerArmed, hwVars, arg, ret, bufBefore, nCalls,
                 ghostVars, auxVars>>

\* sendHandler_->start();
BeginStart(s) ==
  /\ At(s, "begin_start")
  /\ irqEnabled' = handlerStart(s).irq
  /\ txMode' = handlerStart(s).mode
  /\ stack' = Goto("begin_active")
  /\ UNCHANGED <<senderVars, txInstances, arg, ret, bufBefore, nCalls,
                 ghostVars, auxVars>>

\* sendHandler_->setActive();
BeginActive(s) ==
  /\ At(s, "begin_active")
  /\ txMode' = setActive(s)
  /\ stack' = Return
  /\ UNCHANGED <<senderVars, txInstances, irqEnabled, arg, ret, bufBefore,
                 nCalls, ghostVars, auxVars>>

\* ------------------------------------------------------------------------
\*  Sender::end and Sender::~Sender
\* ------------------------------------------------------------------------

CallEnd(s) ==
  /\ AppIdle
  /\ alive[s]
  /\ stack' = <<Frame("end", s, "end0")>>
  /\ arg' = Call0("end", s)
  /\ ret' = "none"
  /\ armedN' = [armedN EXCEPT ![s] = 0]
  /\ UNCHANGED <<senderVars, hwVars, bufBefore, nCalls, ub, sentSince,
                 cbSince, evictedBy, auxVars>>

\* ~Sender() { end(); }
CallDestroy(s) ==
  /\ AppIdle
  /\ alive[s]
  /\ stack' = <<Frame("dtor", s, "dtor_done"), Frame("end", s, "end0")>>
  /\ arg' = Call0("dtor", s)
  /\ ret' = "none"
  /\ armedN' = [armedN EXCEPT ![s] = 0]
  /\ UNCHANGED <<senderVars, hwVars, bufBefore, nCalls, ub, sentSince,
                 cbSince, evictedBy, auxVars>>

\* if (!began_) return; began_ = false; if (serialIndex_ < 0) return;
End0(s) ==
  /\ At(s, "end0")
  /\ IF ~began[s]
       THEN /\ stack' = Return
            /\ UNCHANGED began
       ELSE /\ began' = [began EXCEPT ![s] = FALSE]
            /\ stack' = IF serialIndex(s) < 0 THEN Return
                                              ELSE Goto("end_handler")
  /\ UNCHANGED <<alive, state, outputBuf, outputBufIndex, paused,
                 resumeCounter, transmitting, doneTXFunc, refreshRate,
                 breakToBreakTime, packetCount, timerArmed, hwVars, arg, ret,
                 bufBefore, nCalls, ghostVars, auxVars>>

\* An end() that does not stop the hardware handler.
EndHandlerSkipped(s) ==
  /\ At(s, "end_handler")
  /\ stack' = Goto("end_timer")
  /\ UNCHANGED <<senderVars, hwVars, arg, ret, bufBefore, nCalls, ghostVars,
                 auxVars>>

\* sendHandler_->end();
EndHandler(s) ==
  /\ At(s, "end_handler")
  /\ irqEnabled' = handlerEnd(s).irq
  /\ txMode' = handlerEnd(s).mode
  /\ stack' = Goto("end_timer")
  /\ UNCHANGED <<senderVars, txInstances, arg, ret, bufBefore, nCalls,
                 ghostVars, auxVars>>

\* intervalTimer_.end();
EndTimer(s) ==
  /\ At(s, "end_timer")
  /\ timerArmed' = [timerArmed EXCEPT ![s] = FALSE]
  /\ stack' = Goto("end_slot")
  /\ UNCHANGED <<alive, began, state, outputBuf, outputBufIndex, paused,
                 resumeCounter, transmitting, doneTXFunc, refreshRate,
                 breakToBreakTime, packetCount, hwVars, arg, ret, bufBefore,
                 nCalls, ghostVars, auxVars>>

\* An end() that clears the slot whoever holds it.
EndSlotAlways(s) ==
  /\ At(s, "end_slot")
  /\ txInstances' = [txInstances EXCEPT ![serialIndex(s)] = NULL]
  /\ stack' = Return
  /\ UNCHANGED <<senderVars, irqEnabled, txMode, arg, ret, bufBefore, nCalls,
                 ghostVars, auxVars>>

\* if (txInstances[serialIndex_] == this) txInstances[serialIndex_] = nullptr;
EndSlot(s) ==
  /\ At(s, "end_slot")
  /\ txInstances' = IF txInstances[serialIndex(s)] = s
                      THEN [txInstances EXCEPT ![serialIndex(s)] = NULL]
                      ELSE txInstances
  /\ stack' = Return
  /\ UNCHANGED <<senderVars, irqEnabled, txMode, arg, ret, bufBefore, nCalls,
                 ghostVars, auxVars>>

\* The destructor has run end(): the object is gone.  Its fields are no
\* longer readable; the model keeps them at their constructed values.
DtorDone(s) ==
  /\ At(s, "dtor_done")
  /\ alive' = [alive EXCEPT ![s] = FALSE]
  /\ state' = [state EXCEPT ![s] = "Idle"]
  /\ outputBuf' = [outputBuf EXCEPT ![s] = ZeroBuf]
  /\ outputBufIndex' = [outputBufIndex EXCEPT ![s] = 0]
  /\ paused' = [paused EXCEPT ![s] = FALSE]
  /\ resumeCounter' = [resumeCounter EXCEPT ![s] = 0]
  /\ transmitting' = [transmitting EXCEPT ![s] = FALSE]
  /\ doneTXFunc' = [doneTXFunc EXCEPT ![s] = NULL]
  /\ refreshRate' = [refreshRate EXCEPT ![s] = Infinity]
  /\ breakToBreakTime' = [breakToBreakTime EXCEPT ![s] = 0]
  /\ packetCount' = [packetCount EXCEPT ![s] = 0]
  /\ evictedBy' = [evictedBy EXCEPT ![s] = NULL]
  /\ stack' = Return
  /\ breakTime_' = [breakTime_ EXCEPT ![s] = kDefaultBreakTime]
  /\ adjustedBreakTime_' =
       [adjustedBreakTime_ EXCEPT ![s] = AdjustedBreak(kDefaultBreakTime)]
  /\ mabTime_' = [mabTime_ EXCEPT ![s] = kDefaultMABTime]
  /\ adjustedMABTime_' =
       [adjustedMABTime_ EXCEPT ![s] = AdjustedMAB(kDefaultMABTime)]
  /\ breakBaud_' = [breakBaud_ EXCEPT ![s] = kDefaultBreakBaud]
  /\ breakFormat_' = [breakFormat_ EXCEPT ![s] = kDefaultBreakFormat]
  /\ breakUseTimer_' = [breakUseTimer_ EXCEPT ![s] = FALSE]
  /\ doneCalled' = [doneCalled EXCEPT ![s] = FALSE]
  /\ UNCHANGED <<began, timerArmed, hwVars, arg, ret, bufBefore, nCalls,
                 ub, armedN, sentSince, cbSince, callVars, beganBefore>>

\* Sender::Sender: a new object is constructed in place of a destroyed one.
Construct(s) ==
  /\ AppIdle
  /\ ~alive[s]
  /\ alive' = [alive EXCEPT ![s] = TRUE]
  /\ UNCHANGED <<began, state, outputBuf, outputBufIndex, paused,
                 resumeCounter, transmitting, doneTXFunc, refreshRate,
                 breakToBreakTime, packetCount, timerArmed, hwVars, appVars,
                 ghostVars, auxVars>>

\* ------------------------------------------------------------------------
\*  Interrupt context
\* ------------------------------------------------------------------------

GhostCap == MaxPackets + 1

\* A completePacket that invokes the callback whether paused or not.
completePacketAlways(s) ==
  /\ packetCount' = [packetCount EXCEPT ![s] = @ + 1]
  /\ doneCalled' = [doneCalled EXCEPT ![s] = doneTXFunc[s] # NULL]
  /\ outputBufIndex' = [outputBufIndex EXCEPT ![s] = 0]
  /\ transmitting' = [transmitting EXCEPT ![s] = FALSE]
  /\ state' = [state EXCEPT ![s] = "Idle"]
  /\ cbSince' = IF doneTXFunc[s] # NULL /\ armedN[s] > 0
                  THEN [cbSince EXCEPT ![s] = Min(@ + 1, GhostCap)]
                  ELSE cbSince
  /\ sentSince' = IF armedN[s] > 0
                    THEN [sentSince EXCEPT ![s] = Min(@ + 1, GhostCap)]
                    ELSE sentSince

\* A completePacket that leaves the byte index where it is.
completePacketKeepsIndex(s) ==
  /\ packetCount' = [packetCount EXCEPT ![s] = @ + 1]
  /\ doneCalled' = [doneCalled EXCEPT
                      ![s] = paused[s] /\ doneTXFunc[s] # NULL]
  /\ UNCHANGED outputBufIndex
  /\ transmitting' = [transmitting EXCEPT ![s] = FALSE]
  /\ state' = [state EXCEPT ![s] = "Idle"]
  /\ cbSince' = IF paused[s] /\ doneTXFunc[s] # NULL /\ armedN[s] > 0
                  THEN [cbSince EXCEPT ![s] = Min(@ + 1, GhostCap)]
                  ELSE cbSince
  /\ sentSince' = IF armedN[s] > 0
                    THEN [sentSince EXCEPT ![s] = Min(@ + 1, GhostCap)]
                    ELSE sentSince

\* Sender::completePacket
completePacket(s) ==
  /\ packetCount' = [packetCount EXCEPT ![s] = @ + 1]
  /\ doneCalled' = [doneCalled EXCEPT
                      ![s] = paused[s] /\ doneTXFunc[s] # NULL]
  /\ outputBufIndex' = [outputBufIndex EXCEPT ![s] = 0]
  /\ transmitting' = [transmitting EXCEPT ![s] = FALSE]
  /\ state' = [state EXCEPT ![s] = "Idle"]
  /\ cbSince' = IF paused[s] /\ doneTXFunc[s] # NULL /\ armedN[s] > 0
                  THEN [cbSince EXCEPT ![s] = Min(@ + 1, GhostCap)]
                  ELSE cbSince
  /\ sentSince' = IF armedN[s] > 0
                    THEN [sentSince EXCEPT ![s] = Min(@ + 1, GhostCap)]
                    ELSE sentSince

\* The hardware send handler's irqHandler(), one invocation: the transmit
\* state machine Idle -> BREAK and MAB -> one byte per interrupt -> wait for
\* transmission complete -> completePacket().
irqHandler(s) ==
  LET p == serialIndex(s)
      m == txMode[p]
  IN
  CASE m = "ACTIVE" /\ state[s] = "Idle" /\ paused[s] ->
         \* paused: the transmitter goes inactive and nothing starts
         /\ txMode' = [txMode EXCEPT ![p] = "INACTIVE"]
         /\ UNCHANGED <<senderVars, txInstances, irqEnabled, appVars,
                        ghostVars, auxVars>>
    [] m = "ACTIVE" /\ state[s] = "Idle" /\ ~paused[s] ->
         \* a packet starts; the last packet of a resumeFor(n) pauses
         /\ packetCount[s] < MaxPackets
         /\ resumeCounter' = [resumeCounter EXCEPT
                                ![s] = IF @ > 0 THEN @ - 1 ELSE @]
         /\ paused' = [paused EXCEPT ![s] = (resumeCounter[s] = 1)]
         /\ transmitting' = [transmitting EXCEPT ![s] = TRUE]
         /\ state' = [state EXCEPT ![s] = "Break"]
         /\ \E wait \in BOOLEAN :
              \* wait: the break-to-break time has not yet elapsed
              /\ wait = TRUE => breakToBreakTime[s] # 0
              /\ wait = FALSE => breakToBreakTime[s] # UINT32_MAX
              /\ txMode' = [txMode EXCEPT
                              ![p] = IF wait THEN "INACTIVE" ELSE "COMPLETING"]
              /\ timerArmed' = [timerArmed EXCEPT
                    ![s] = IF wait /\ breakToBreakTime[s] # UINT32_MAX
                             THEN TRUE ELSE @]
         /\ UNCHANGED <<alive, began, outputBuf, outputBufIndex, doneTXFunc,
                        refreshRate, breakToBreakTime, packetCount,
                        txInstances, irqEnabled, appVars, ghostVars, auxVars>>
    [] m = "COMPLETING" /\ state[s] = "Break" ->
         \* BREAK and MAB have gone out: the data follows
         /\ state' = [state EXCEPT ![s] = "Data"]
         /\ txMode' = [txMode EXCEPT ![p] = "ACTIVE"]
         /\ UNCHANGED <<alive, began, outputBuf, outputBufIndex, paused,
                        resumeCounter, transmitting, doneTXFunc, refreshRate,
                        breakToBreakTime, packetCount, timerArmed,
                        txInstances, irqEnabled, appVars, ghostVars, auxVars>>
    [] m = "ACTIVE" /\ state[s] = "Data" ->
         \* push outputBuf_[outputBufIndex_++]; after the last byte wait for
         \* the transmission to complete
         /\ outputBufIndex' = [outputBufIndex EXCEPT
                                 ![s] = IF @ < PacketSize THEN @ + 1 ELSE @]
         /\ txMode' = [txMode EXCEPT
                         ![p] = IF outputBufIndex[s] + 1 >= PacketSize
                                  THEN "COMPLETING" ELSE "ACTIVE"]
         /\ UNCHANGED <<alive, began, state, outputBuf, paused, resumeCounter,
                        transmitting, doneTXFunc, refreshRate,
                        breakToBreakTime, packetCount, timerArmed,
                        txInstances, irqEnabled, appVars, ghostVars, auxVars>>
    [] m = "COMPLETING" /\ state[s] = "Data" ->
         /\ completePacket(s)
         /\ txMode' = [txMode EXCEPT ![p] = "ACTIVE"]
         /\ UNCHANGED <<alive, began, outputBuf, paused, resumeCounter,
                        doneTXFunc, refreshRate, breakToBreakTime, timerArmed,
                        txInstances, irqEnabled, appVars, ub, armedN, evictedBy,
                        timingVars, callVars, beganBefore>>
    [] OTHER ->
         UNCHANGED vars

\* uart0_tx_isr and its siblings, one per port
TxIsr(p) ==
  /\ IrqCanFire(p)
  /\ IF txInstances[p] = NULL
       THEN UNCHANGED vars
       ELSE irqHandler(txInstances[p])

\* The pacing timer of a Sender expires: the BREAK may start.
RateTimer(s) ==
  /\ ~ub
  /\ timerArmed[s]
  /\ timerArmed' = [timerArmed EXCEPT ![s] = FALSE]
  /\ txMode' = [txMode EXCEPT ![serialIndex(s)] = "COMPLETING"]
  /\ UNCHANGED <<alive, began, state, outputBuf, outputBufIndex, paused,
                 resumeCounter, transmitting, doneTXFunc, refreshRate,
                 breakToBreakTime, packetCount, txInstances, irqEnabled,
                 appVars, ghostVars, auxVars>>

\* ------------------------------------------------------------------------
\*  The Lock scope: IRQ management
\* ------------------------------------------------------------------------

\* A disableIRQs that leaves the port's interrupt as it is.
disableIRQsNothing(s) == irqEnabled

\* Sender::disableIRQs
disableIRQs(s) == IF ~began[s] THEN irqEnabled ELSE setIRQsEnabled(s, FALSE)

\* Sender::enableIRQs
enableIRQs(s) == IF ~began[s] THEN irqEnabled ELSE setIRQsEnabled(s, TRUE)

\* Both dereference sendHandler_ of a begun Sender, which is null for a
\* Sender on an unknown port.
NullHandlerUse(s) == began[s] /\ ~HasHandler(s)

\* The first statement inside the Lock scope of each locked operation.
Body(op) == CASE op = "resumeFor" -> "res_cnt"
              [] op = "isTransmitting" -> "it_read"
              [] op = "set16Bit" -> "set16_hi"
              [] op = "setRange" -> "setn_copy"
              [] op = "setRange16" -> "set16n_store"
              [] op = "clear" -> "clear_fill"

\* Lock lock{*this}: the constructor calls disableIRQs().
LockStep(s) ==
  /\ At(s, "lock")
  /\ irqEnabled' = disableIRQs(s)
  /\ ub' = NullHandlerUse(s)
  /\ stack' = Goto(Body(Top.op))
  /\ UNCHANGED <<senderVars, txInstances, txMode, arg, ret, bufBefore,
                 nCalls, armedN, sentSince, cbSince, evictedBy, auxVars>>

\* The end of the Lock scope: the destructor calls enableIRQs(); the
\* operation returns.
UnlockStep(s) ==
  /\ At(s, "unlock")
  /\ irqEnabled' = enableIRQs(s)
  /\ ub' = NullHandlerUse(s)
  /\ ret' = CASE Top.op = "isTransmitting" -> ret
              [] Top.op = "clear" -> "none"
              [] OTHER -> "true"
  /\ stack' = Return
  /\ UNCHANGED <<senderVars, txInstances, txMode, arg, bufBefore, nCalls,
                 armedN, sentSince, cbSince, evictedBy, auxVars>>

\* ------------------------------------------------------------------------
\*  pause, resumeFor, isTransmitting
\* ------------------------------------------------------------------------

\* pause(): paused_ = true
CallPause(s) ==
  /\ AppIdle
  /\ alive[s]
  /\ paused' = [paused EXCEPT ![s] = TRUE]
  /\ arg' = Call0("pause", s)
  /\ ret' = "none"
  /\ armedN' = [armedN EXCEPT ![s] = 0]
  /\ sentSince' = [sentSince EXCEPT ![s] = 0]
  /\ cbSince' = [cbSince EXCEPT ![s] = 0]
  /\ UNCHANGED <<alive, began, state, outputBuf, outputBufIndex,
                 resumeCounter, transmitting, doneTXFunc, refreshRate,
                 breakToBreakTime, packetCount, timerArmed, hwVars, stack,
                 bufBefore, nCalls, ub, evictedBy, auxVars>>

\* resumeFor(n, doneTXFunc); resumeFor(n) passes the stored doneTXFunc_ and
\* resume() is resumeFor(0).  The call is put under observation when it is
\* made on a begun, paused Sender with no packet in flight, with n > 0 and
\* a callback.
CallResumeFor(s, n, cb) ==
  /\ AppIdle
  /\ alive[s]
  /\ stack' = <<Frame("resumeFor", s, "resumeFor0")>>
  /\ arg' = [Call0("resumeFor", s) EXCEPT !.n = n, !.cb = cb]
  /\ ret' = "none"
  /\ armedN' = [armedN EXCEPT
                  ![s] = IF n > 0 /\ cb # NULL /\ began[s] /\ paused[s]
                            /\ ~transmitting[s]
                           THEN n ELSE 0]
  /\ sentSince' = [sentSince EXCEPT ![s] = 0]
  /\ cbSince' = [cbSince EXCEPT ![s] = 0]
  /\ UNCHANGED <<senderVars, hwVars, bufBefore, nCalls, ub, evictedBy,
                 auxVars>>

\* A resumeFor whose check lets n = -1 through.
ResumeFor0Late(s) ==
  /\ At(s, "resumeFor0")
  /\ IF arg.n < -1
       THEN /\ ret' = "false"
            /\ stack' = Return
       ELSE /\ ret' = ret
            /\ stack' = Goto("lock")
  /\ UNCHANGED <<senderVars, hwVars, arg, bufBefore, nCalls, ghostVars,
                 auxVars>>

\* if (n < 0) return false;
ResumeFor0(s) ==
  /\ At(s, "resumeFor0")
  /\ IF arg.n < 0
       THEN /\ ret' = "false"
            /\ stack' = Return
       ELSE /\ ret' = ret
            /\ stack' = Goto("lock")
  /\ UNCHANGED <<senderVars, hwVars, arg, bufBefore, nCalls, ghostVars,
                 auxVars>>

\* resumeCounter_ = n;
ResumeForCounter(s) ==
  /\ At(s, "res_cnt")
  /\ resumeCounter' = [resumeCounter EXCEPT ![s] = arg.n]
  /\ stack' = Goto("res_paused")
  /\ UNCHANGED <<alive, began, state, outputBuf, outputBufIndex, paused,
                 transmitting, doneTXFunc, refreshRate, breakToBreakTime,
                 packetCount, timerArmed, hwVars, arg, ret, bufBefore, nCalls,
                 ghostVars, auxVars>>

\* if (paused_) { if (began_ && !transmitting_) sendHandler_->setActive();
\*                paused_ = false; }
ResumeForPaused(s) ==
  /\ At(s, "res_paused")
  /\ IF paused[s]
       THEN /\ txMode' = IF began[s] /\ ~transmitting[s]
                           THEN setActive(s) ELSE txMode
            /\ ub' = (began[s] /\ ~transmitting[s] /\ ~HasHandler(s))
            /\ paused' = [paused EXCEPT ![s] = FALSE]
       ELSE UNCHANGED <<txMode, ub, paused>>
  /\ stack' = Goto("res_cb")
  /\ UNCHANGED <<alive, began, state, outputBuf, outputBufIndex,
                 resumeCounter, transmitting, doneTXFunc, refreshRate,
                 breakToBreakTime, packetCount, timerArmed, txInstances,
                 irqEnabled, arg, ret, bufBefore, nCalls, armedN, sentSince,
                 cbSince, evictedBy, auxVars>>

\* doneTXFunc_ = doneTXFunc;
ResumeForCallback(s) ==
  /\ At(s, "res_cb")
  /\ doneTXFunc' = [doneTXFunc EXCEPT ![s] = arg.cb]
  /\ stack' = Goto("unlock")
  /\ UNCHANGED <<alive, began, state, outputBuf, outputBufIndex, paused,
                 resumeCounter, transmitting, refreshRate, breakToBreakTime,
                 packetCount, timerArmed, hwVars, arg, ret, bufBefore, nCalls,
                 ghostVars, auxVars>>

\* Sender::isTransmitting: the value it returns
isTransmitting(s) == ~paused[s] \/ transmitting[s]

CallIsTransmitting(s) ==
  /\ AppIdle
  /\ alive[s]
  /\ stack' = <<Frame("isTransmitting", s, "lock")>>
  /\ arg' = Call0("isTransmitting", s)
  /\ ret' = "none"
  /\ UNCHANGED <<senderVars, hwVars, bufBefore, nCalls, ghostVars, auxVars>>

\* bool state = !paused_ || transmitting_;
IsTransmittingRead(s) ==
  /\ At(s, "it_read")
  /\ ret' = IF isTransmitting(s) THEN "true" ELSE "false"
  /\ stack' = Goto("unlock")
  /\ UNCHANGED <<senderVars, hwVars, arg, bufBefore, nCalls, ghostVars,
                 auxVars>>

\* ------------------------------------------------------------------------
\*  Sender::setRefreshRate
\* ------------------------------------------------------------------------

IsNaN(rate) == rate.k = "nan"

\* A check that takes no rate for negative.
NeverNegative(rate) == FALSE

IsNegative(rate) == rate.k = "fin" /\ rate.v < 0

IsZero(rate) == rate.k = "fin" /\ rate.v = 0

\* The float 1000000 / rate is below 2^32: its conversion to uint32_t is
\* defined. 1000000 * 4294 is the last multiple of 1000000 below 2^32.
FitsUint32(rate) == rate.k = "rcp" => rate.v <= 4294

\* 1000000 / rate, converted to uint32_t: the quotient without its
\* fraction; 1000000 * d for the rate 1/d, held as the signed integer of
\* the same bit pattern (2148000000 is 2^31 + 516352).
BreakToBreak(rate) ==
  CASE rate.k = "inf" -> 0
    [] rate.k = "rcp" ->
         IF rate.v <= 2147 THEN 1000000 * rate.v
                           ELSE INT_MIN + (1000000 * (rate.v - 2148) + 516352)
    [] OTHER -> 1000000 \div rate.v

CallSetRefreshRate(s, rate) ==
  /\ AppIdle
  /\ alive[s]
  /\ stack' = <<Frame("setRefreshRate", s, "rate0")>>
  /\ arg' = [Call0("setRefreshRate", s) EXCEPT !.rate = rate]
  /\ ret' = "none"
  /\ armedN' = [armedN EXCEPT ![s] = 0]
  /\ sentSince' = [sentSince EXCEPT ![s] = 0]
  /\ cbSince' = [cbSince EXCEPT ![s] = 0]
  /\ beganBefore' = began[s]
  /\ UNCHANGED <<senderVars, hwVars, bufBefore, nCalls, ub, evictedBy,
                 timingVars, callVars, doneCalled>>

\* if ((rate != rate) || rate < 0.0f) return false;
\* if (rate == 0.0f) breakToBreakTime_ = UINT32_MAX;
\* else if (refreshRate_ == 0.0f) end(); ...
SetRefreshRate0(s) ==
  /\ At(s, "rate0")
  /\ IF IsNaN(arg.rate) \/ IsNegative(arg.rate)
       THEN /\ ret' = "false"
            /\ stack' = Return
            /\ beganBefore' = FALSE
            /\ UNCHANGED breakToBreakTime
       ELSE /\ ret' = ret
            /\ UNCHANGED beganBefore
            /\ IF IsZero(arg.rate)
                 THEN /\ breakToBreakTime' =
                           [breakToBreakTime EXCEPT ![s] = UINT32_MAX]
                      /\ stack' = Goto("rate_store")
                 ELSE /\ UNCHANGED breakToBreakTime
                      /\ stack' = IF IsZero(refreshRate[s])
                                    THEN CallThen("rate_begin",
                                                  Frame("end", s, "end0"))
                                    ELSE Goto("rate_btb")
  /\ UNCHANGED <<alive, began, state, outputBuf, outputBufIndex, paused,
                 resumeCounter, transmitting, doneTXFunc, refreshRate,
                 packetCount, timerArmed, hwVars, arg, bufBefore, nCalls,
                 ghostVars, timingVars, callVars, doneCalled>>

\* ... begin();
SetRefreshRateBegin(s) ==
  /\ At(s, "rate_begin")
  /\ stack' = CallThen("rate_btb", Frame("begin", s, "begin0"))
  /\ UNCHANGED <<senderVars, hwVars, arg, ret, bufBefore, nCalls, ghostVars,
                 auxVars>>

\* breakToBreakTime_ = 1000000 / rate;
\* The conversion of a float of 2^32 or more to uint32_t is undefined.
SetRefreshRateInterval(s) ==
  /\ At(s, "rate_btb")
  /\ IF FitsUint32(arg.rate)
       THEN /\ breakToBreakTime' = [breakToBreakTime EXCEPT
                                      ![s] = BreakToBreak(arg.rate)]
            /\ stack' = Goto("rate_store")
            /\ UNCHANGED ub
       ELSE /\ ub' = TRUE
            /\ UNCHANGED <<breakToBreakTime, stack>>
  /\ UNCHANGED <<alive, began, state, outputBuf, outputBufIndex, paused,
                 resumeCounter, transmitting, doneTXFunc, refreshRate,
                 packetCount, timerArmed, hwVars, arg, ret, bufBefore, nCalls,
                 armedN, sentSince, cbSince, evictedBy, auxVars>>

\* refreshRate_ = rate; return true;
SetRefreshRateStore(s) ==
  /\ At(s, "rate_store")
  /\ refreshRate' = [refreshRate EXCEPT ![s] = arg.rate]
  /\ ret' = "true"
  /\ stack' = Return
  /\ beganBefore' = FALSE
  /\ UNCHANGED <<alive, began, state, outputBuf, outputBufIndex, paused,
                 resumeCounter, transmitting, doneTXFunc, breakToBreakTime,
                 packetCount, timerArmed, hwVars, arg, bufBefore, nCalls,
                 ghostVars, timingVars, callVars, doneCalled>>

\* ------------------------------------------------------------------------
\*  The channel API: set, set16Bit, clear
\* ------------------------------------------------------------------------

\* a + b and 2 * a in 32-bit two's complement int arithmetic
AddW(a, b) ==
  IF a > 0 /\ b > 0 /\ a > INT_MAX - b
    THEN (a - INT_MAX - 1) + (b - INT_MAX - 1)
    ELSE IF a < 0 /\ b < 0 /\ a < INT_MIN - b
           THEN (a - INT_MIN) + (b - INT_MIN)
           ELSE a + b

TwiceW(a) == AddW(a, a)

\* The caller's arrays: values[i] of a uint8_t array and of a uint16_t
\* array whose first element is v.
Values8(v, i) == (v + i) % 256

Values16(v, i) == (v + 257 * i) % 65536

HighByte(w) == w \div 256

LowByte(w) == w % 256

\* outputBuf_[i] = b
Store(s, i, b) == [outputBuf EXCEPT ![s] = Put(@, i, b)]

InBuf(i) == 0 <= i /\ i < kMaxDMXPacketSize

\* A call that may change the buffer starts: it is counted, and the
\* buffer it finds is remembered.
StartWrite(op, s, a, stk) ==
  /\ AppIdle
  /\ alive[s]
  /\ nCalls < MaxCalls
  /\ nCalls' = nCalls + 1
  /\ bufBefore' = outputBuf[s]
  /\ arg' = a
  /\ ret' = "none"
  /\ stack' = stk
  /\ UNCHANGED <<hwVars, ghostVars, auxVars>>

\* set(int channel, uint8_t value): one store, no Lock
CallSet(s, channel, value) ==
  /\ StartWrite("set", s,
                [Call0("set", s) EXCEPT !.channel = channel, !.value = value,
                                        !.len = 1],
                <<Frame("set", s, "set0")>>)
  /\ UNCHANGED senderVars

Set0(s) ==
  /\ At(s, "set0")
  /\ IF arg.channel < 0 \/ kMaxDMXPacketSize <= arg.channel
       THEN /\ ret' = "false"
            /\ UNCHANGED outputBuf
       ELSE /\ ret' = "true"
            /\ outputBuf' = Store(s, arg.channel, arg.value)
  /\ stack' = Return
  /\ UNCHANGED <<alive, began, state, outputBufIndex, paused, resumeCounter,
                 transmitting, doneTXFunc, refreshRate, breakToBreakTime,
                 packetCount, timerArmed, hwVars, arg, bufBefore, nCalls,
                 ghostVars, auxVars>>

\* set16Bit(int channel, uint16_t value)
CallSet16Bit(s, channel, value) ==
  /\ StartWrite("set16Bit", s,
                [Call0("set16Bit", s) EXCEPT !.channel = channel,
                                             !.value = value, !.len = 1],
                <<Frame("set16Bit", s, "set16_0")>>)
  /\ UNCHANGED senderVars

\* if (channel < 0 || kMaxDMXPacketSize - 1 <= channel) return false;
Set16Bit0(s) ==
  /\ At(s, "set16_0")
  /\ IF arg.channel < 0 \/ kMaxDMXPacketSize - 1 <= arg.channel
       THEN /\ ret' = "false"
            /\ stack' = Return
       ELSE /\ ret' = ret
            /\ stack' = Goto("lock")
  /\ UNCHANGED <<senderVars, hwVars, arg, bufBefore, nCalls, ghostVars,
                 auxVars>>

\* outputBuf_[channel] = value >> 8;
Set16BitHigh(s) ==
  /\ At(s, "set16_hi")
  /\ outputBuf' = Store(s, arg.channel, HighByte(arg.value))
  /\ stack' = Goto("set16_lo")
  /\ UNCHANGED <<alive, began, state, outputBufIndex, paused, resumeCounter,
                 transmitting, doneTXFunc, refreshRate, breakToBreakTime,
                 packetCount, timerArmed, hwVars, arg, ret, bufBefore, nCalls,
                 ghostVars, auxVars>>

\* A set16Bit that stores the low byte at channel.
Set16BitLowAtChannel(s) ==
  /\ At(s, "set16_lo")
  /\ outputBuf' = Store(s, arg.channel, LowByte(arg.value))
  /\ stack' = Goto("unlock")
  /\ UNCHANGED <<alive, began, state, outputBufIndex, paused, resumeCounter,
                 transmitting, doneTXFunc, refreshRate, breakToBreakTime,
                 packetCount, timerArmed, hwVars, arg, ret, bufBefore, nCalls,
                 ghostVars, auxVars>>

\* outputBuf_[channel + 1] = value;
Set16BitLow(s) ==
  /\ At(s, "set16_lo")
  /\ outputBuf' = Store(s, arg.channel + 1, LowByte(arg.value))
  /\ stack' = Goto("unlock")
  /\ UNCHANGED <<alive, began, state, outputBufIndex, paused, resumeCounter,
                 transmitting, doneTXFunc, refreshRate, breakToBreakTime,
                 packetCount, timerArmed, hwVars, arg, ret, bufBefore, nCalls,
                 ghostVars, auxVars>>

\* The checks with a range that must end before the last slot of the
\* buffer.
RangeCheckShort(startChannel, len, bytes) ==
  LET end == IF bytes = 2 THEN AddW(startChannel, TwiceW(len))
                          ELSE AddW(startChannel, len)
  IN IF len < 0 \/ startChannel < 0 \/ kMaxDMXPacketSize <= startChannel
       THEN "false"
       ELSE IF len = 0
              THEN "true"
              ELSE IF end <= 0 \/ kMaxDMXPacketSize <= end
                     THEN "false"
                     ELSE "write"

\* The checks of set(startChannel, values, len) and, with bytes = 2 for
\* each value, of set16Bit(startChannel, values, len), in wrapping int
\* arithmetic: "false" (rejected), "true" (nothing to write) or "write".
RangeCheck(startChannel, len, bytes) ==
  LET end == IF bytes = 2 THEN AddW(startChannel, TwiceW(len))
                          ELSE AddW(startChannel, len)
  IN IF len < 0 \/ startChannel < 0 \/ kMaxDMXPacketSize <= startChannel
       THEN "false"
       ELSE IF len = 0
              THEN "true"
              ELSE IF end <= 0 \/ kMaxDMXPacketSize < end
                     THEN "false"
                     ELSE "write"

\* The sum startChannel + len (startChannel + len*2) of the third check
\* does not fit in an int.  It is evaluated only for 0 <= startChannel <
\* kMaxDMXPacketSize and len > 0.
Overflows(startChannel, len, bytes) ==
  /\ len > 0
  /\ 0 <= startChannel
  /\ startChannel < kMaxDMXPacketSize
  /\ IF bytes = 2 THEN len > (INT_MAX - startChannel) \div 2
                  ELSE len > INT_MAX - startChannel

\* How a build evaluates an int expression that overflows, which the
\* language leaves undefined: "wrap" is two's complement wraparound, under
\* "any" the call may be rejected or do anything else.
Ariths == {"wrap", "any"}

\* The outcomes of the checks under arith.
RangeOutcomes(startChannel, len, bytes, arith) ==
  IF arith = "any" /\ Overflows(startChannel, len, bytes)
    THEN {"false", "undefined"}
    ELSE {RangeCheck(startChannel, len, bytes)}

\* set(int startChannel, const uint8_t *values, int len)
CallSetRange(s, startChannel, value, len, arith) ==
  /\ arith = "any" => Overflows(startChannel, len, 1)
  /\ StartWrite("setRange", s,
                [Call0("setRange", s) EXCEPT !.channel = startChannel,
                                             !.value = value, !.len = len,
                                             !.arith = arith],
                <<Frame("setRange", s, "setn_0")>>)
  /\ UNCHANGED senderVars

SetRange0(s) ==
  /\ At(s, "setn_0")
  /\ \E c \in RangeOutcomes(arg.channel, arg.len, 1, arg.arith) :
       CASE c = "write" -> /\ ret' = ret
                           /\ stack' = Goto("lock")
                           /\ UNCHANGED ub
         [] c = "undefined" -> /\ ub' = TRUE
                               /\ UNCHANGED <<ret, stack>>
         [] OTHER -> /\ ret' = c
                     /\ stack' = Return
                     /\ UNCHANGED ub
  /\ UNCHANGED <<senderVars, hwVars, arg, bufBefore, nCalls, armedN,
                 sentSince, cbSince, evictedBy, auxVars>>

\* std::copy_n(&values[0], len, &outputBuf_[startChannel]), one byte a step
SetRangeCopy(s) ==
  /\ At(s, "setn_copy")
  /\ LET i == Top.i IN
       IF i >= arg.len
         THEN /\ stack' = Goto("unlock")
              /\ UNCHANGED <<outputBuf, ub>>
         ELSE IF InBuf(arg.channel + i)
                THEN /\ outputBuf' = Store(s, arg.channel + i,
                                           Values8(arg.value, i))
                     /\ stack' = [stack EXCEPT ![Len(stack)].i = i + 1]
                     /\ UNCHANGED ub
                ELSE \* a store past the end of outputBuf_
                     /\ ub' = TRUE
                     /\ UNCHANGED <<outputBuf, stack>>
  /\ UNCHANGED <<alive, began, state, outputBufIndex, paused, resumeCounter,
                 transmitting, doneTXFunc, refreshRate, breakToBreakTime,
                 packetCount, timerArmed, hwVars, arg, ret, bufBefore, nCalls,
                 armedN, sentSince, cbSince, evictedBy, auxVars>>

\* set16Bit(int startChannel, const uint16_t *values, int len)
CallSetRange16(s, startChannel, value, len, arith) ==
  /\ arith = "any" => Overflows(startChannel, len, 2)
  /\ StartWrite("setRange16", s,
                [Call0("setRange16", s) EXCEPT !.channel = startChannel,
                                               !.value = value, !.len = len,
                                               !.arith = arith],
                <<Frame("setRange16", s, "set16n_0")>>)
  /\ UNCHANGED senderVars

SetRange16Check(s) ==
  /\ At(s, "set16n_0")
  /\ \E c \in RangeOutcomes(arg.channel, arg.len, 2, arg.arith) :
       CASE c = "write" -> /\ ret' = ret
                           /\ stack' = Goto("lock")
                           /\ UNCHANGED ub
         [] c = "undefined" -> /\ ub' = TRUE
                               /\ UNCHANGED <<ret, stack>>
         [] OTHER -> /\ ret' = c
                     /\ stack' = Return
                     /\ UNCHANGED ub
  /\ UNCHANGED <<senderVars, hwVars, arg, bufBefore, nCalls, armedN,
                 sentSince, cbSince, evictedBy, auxVars>>

\* for (int i = 0; i < len; i++) {
\*   outputBuf_[startChannel++] = values[i] >> 8;
\*   outputBuf_[startChannel++] = values[i]; }
\* one store a step; Top.i counts the stores made.
SetRange16Store(s) ==
  /\ At(s, "set16n_store")
  /\ LET k == Top.i
         w == Values16(arg.value, k \div 2)
     IN
       IF k \div 2 >= arg.len
         THEN /\ stack' = Goto("unlock")
              /\ UNCHANGED <<outputBuf, ub>>
         ELSE IF InBuf(arg.channel + k)
                THEN /\ outputBuf' =
                          Store(s, arg.channel + k,
                                IF k % 2 = 0 THEN HighByte(w) ELSE LowByte(w))
                     /\ stack' = [stack EXCEPT ![Len(stack)].i = k + 1]
                     /\ UNCHANGED ub
                ELSE \* a store past the end of outputBuf_
                     /\ ub' = TRUE
                     /\ UNCHANGED <<outputBuf, stack>>
  /\ UNCHANGED <<alive, began, state, outputBufIndex, paused, resumeCounter,
                 transmitting, doneTXFunc, refreshRate, breakToBreakTime,
                 packetCount, timerArmed, hwVars, arg, ret, bufBefore, nCalls,
                 armedN, sentSince, cbSince, evictedBy, auxVars>>

\* clear()
CallClear(s) ==
  /\ StartWrite("clear", s, Call0("clear", s),
                <<Frame("clear", s, "lock")>>)
  /\ UNCHANGED senderVars

\* A clear() that fills nothing.
ClearFillNothing(s) ==
  /\ At(s, "clear_fill")
  /\ stack' = Goto("unlock")
  /\ UNCHANGED outputBuf
  /\ UNCHANGED <<alive, began, state, outputBufIndex, paused, resumeCounter,
                 transmitting, doneTXFunc, refreshRate, breakToBreakTime,
                 packetCount, timerArmed, hwVars, arg, ret, bufBefore, nCalls,
                 ghostVars, auxVars>>

\* std::fill_n(&outputBuf_[0], kMaxDMXPacketSize, uint8_t{0}), one step for
\* each store that changes a byte: the stores of 0 over a 0 before it, which
\* change nothing any context can see, are part of the step.
ClearFill(s) ==
  /\ At(s, "clear_fill")
  /\ LET left == {j \in Top.i .. (kMaxDMXPacketSize - 1) :
                    Byte(outputBuf[s], j) # 0}
     IN
       IF left = {}
         THEN /\ stack' = Goto("unlock")
              /\ UNCHANGED outputBuf
         ELSE LET j == CHOOSE x \in left : \A y \in left : x <= y IN
                /\ outputBuf' = Store(s, j, 0)
                /\ stack' = [stack EXCEPT ![Len(stack)].i = j + 1]
  /\ UNCHANGED <<alive, began, state, outputBufIndex, paused, resumeCounter,
                 transmitting, doneTXFunc, refreshRate, breakToBreakTime,
                 packetCount, timerArmed, hwVars, arg, ret, bufBefore, nCalls,
                 ghostVars, auxVars>>

\* ------------------------------------------------------------------------
\*  BREAK and MAB timing
\* ------------------------------------------------------------------------

MaxTimingCalls == 3

\* A call of the timing interface starts: it is counted.
StartTiming(s, a) ==
  /\ AppIdle
  /\ alive[s]
  /\ nTiming < MaxTimingCalls
  /\ nTiming' = nTiming + 1
  /\ arg' = a
  /\ UNCHANGED <<senderVars, hwVars, stack, bufBefore, nCalls, armedN,
                 sentSince, cbSince, evictedBy, doneCalled, beganBefore>>

\* Sender::setBreakTime
setBreakTime(s, t) ==
  /\ StartTiming(s, [Call0("setBreakTime", s) EXCEPT !.t = t])
  /\ breakTime_' = [breakTime_ EXCEPT ![s] = t]
  /\ adjustedBreakTime_' = [adjustedBreakTime_ EXCEPT ![s] = AdjustedBreak(t)]
  /\ notified' = FALSE
  /\ UNCHANGED <<mabTime_, adjustedMABTime_, breakBaud_, breakFormat_,
                 breakUseTimer_, ret, retTime, ub>>

\* Sender::setMABTime
setMABTime(s, t) ==
  /\ StartTiming(s, [Call0("setMABTime", s) EXCEPT !.t = t])
  /\ mabTime_' = [mabTime_ EXCEPT ![s] = t]
  /\ adjustedMABTime_' = [adjustedMABTime_ EXCEPT ![s] = AdjustedMAB(t)]
  /\ notified' = FALSE
  /\ UNCHANGED <<breakTime_, adjustedBreakTime_, breakBaud_, breakFormat_,
                 breakUseTimer_, ret, retTime, ub>>

\* The accessors of TeensyDMX.h: each returns its field.
isBreakUseTimerNotSerial(s) == breakUseTimer_[s]

breakSerialFormat(s) == breakFormat_[s]

breakSerialBaud(s) == breakBaud_[s]

\* setBreakUseTimerNotSerial of TeensyDMX.h: the mode of BREAK generation
setBreakUseTimerNotSerial(s, flag) ==
  /\ StartTiming(s, [Call0("setBreakUseTimerNotSerial", s) EXCEPT
                       !.flag = flag])
  /\ breakUseTimer_' = [breakUseTimer_ EXCEPT ![s] = flag]
  /\ notified' = FALSE
  /\ UNCHANGED <<breakTime_, adjustedBreakTime_, mabTime_, adjustedMABTime_,
                 breakBaud_, breakFormat_, ret, retTime, ub>>

\* The bit times of the MAB of a framing: the switch of mabTime()
MABBits(base) ==
  CASE base \in {"7E1", "8N1", "8E1"} -> 1
    [] base \in {"7O1", "8O1", "8N2"} -> 2

\* A BREAK of as many bit times as the MAB.
BreakBitsOfMAB(base) == MABBits(base)

\* The bit times of the BREAK of a framing: the switch of breakTime()
BreakBits(base) ==
  CASE base \in {"7E1", "8N1", "8O1", "8N2"} -> 9
    [] base = "8E1" -> 10
    [] base = "7O1" -> 8

\* Sender::breakTime() const
breakTime(s) ==
  IF isBreakUseTimerNotSerial(s)
    THEN breakTime_[s]
    ELSE LET f == MaskInvert(breakSerialFormat(s))
         IN IF f.base \in SupportedBases
              THEN UDiv(BreakBits(f.base) * 1000000, breakSerialBaud(s))
              ELSE kDefaultBreakTime

\* Sender::mabTime() const
mabTime(s) ==
  IF isBreakUseTimerNotSerial(s)
    THEN mabTime_[s]
    ELSE LET f == MaskInvert(breakSerialFormat(s))
         IN IF f.base \in SupportedBases
              THEN UDiv(MABBits(f.base) * 1000000, breakSerialBaud(s))
              ELSE kDefaultMABTime

\* The application reads breakTime().
CallBreakTime(s) ==
  /\ StartTiming(s, Call0("breakTime", s))
  /\ retTime' = breakTime(s)
  /\ notified' = FALSE
  /\ UNCHANGED <<timingVars, ret, ub>>

\* The application reads mabTime().
CallMABTime(s) ==
  /\ StartTiming(s, Call0("mabTime", s))
  /\ retTime' = mabTime(s)
  /\ notified' = FALSE
  /\ UNCHANGED <<timingVars, ret, ub>>

\* Sender::setBreakSerialParams. The switch tests the framing of
\* breakSerialFormat(), the stored format. The handler is told of the new
\* parameters through sendHandler_, which is null for a Sender of an
\* unknown port.
setBreakSerialParams(s, baud, format) ==
  /\ StartTiming(s, [Call0("setBreakSerialParams", s) EXCEPT
                       !.baud = baud, !.format = format])
  /\ IF \/ baud = 0
        \/ format.txinv
        \/ MaskInvert(breakSerialFormat(s)).base \notin SupportedBases
       THEN /\ ret' = "false"
            /\ notified' = FALSE
            /\ UNCHANGED <<breakBaud_, breakFormat_, ub>>
       ELSE /\ breakBaud_' = [breakBaud_ EXCEPT ![s] = baud]
            /\ breakFormat_' = [breakFormat_ EXCEPT ![s] = format]
            /\ IF HasHandler(s)
                 THEN /\ notified' = TRUE
                      /\ ret' = "true"
                      /\ UNCHANGED ub
                 ELSE /\ ub' = TRUE
                      /\ UNCHANGED <<notified, ret>>
  /\ UNCHANGED <<breakTime_, adjustedBreakTime_, mabTime_, adjustedMABTime_,
                 breakUseTimer_, retTime>>

\* ------------------------------------------------------------------------
\*  Specifications
\* ------------------------------------------------------------------------

\* Life cycle: construction, begin, end and destruction of three Senders,
\* two of them on the same port, under the port's transmit interrupt.
Next ==
  \/ \E s \in Senders : CallBegin(s)
  \/ \E s \in Senders : CallEnd(s)
  \/ \E s \in Senders : CallDestroy(s)
  \/ \E s \in Senders : Construct(s)
  \/ \E s \in Senders : Begin0(s)
  \/ \E s \in Senders : BeginSlot(s)
  \/ \E s \in Senders : BeginXmit(s)
  \/ \E s \in Senders : BeginStart(s)
  \/ \E s \in Senders : BeginActive(s)
  \/ \E s \in Senders : End0(s)
  \/ \E s \in Senders : EndHandler(s)
  \/ \E s \in Senders : EndTimer(s)
  \/ \E s \in Senders : EndSlot(s)
  \/ \E s \in Senders : DtorDone(s)
  \/ \E p \in Ports : TxIsr(p)

Spec == Init /\ [][Next]_vars

\* Pausing and pacing: one Sender on its port with begin, end, pause,
\* resumeFor, isTransmitting and setRefreshRate, under the port's transmit
\* interrupt and the pacing timer.
ResumeCounts == {-1, 0, 1, 2}

NextPause ==
  \/ CallBegin(1)
  \/ CallEnd(1)
  \/ CallPause(1)
  \/ \E n \in ResumeCounts, cb \in Callbacks : CallResumeFor(1, n, cb)
  \/ CallIsTransmitting(1)
  \/ \E rate \in Rates : CallSetRefreshRate(1, rate)
  \/ Begin0(1)
  \/ BeginSlot(1)
  \/ BeginXmit(1)
  \/ BeginStart(1)
  \/ BeginActive(1)
  \/ End0(1)
  \/ EndHandler(1)
  \/ EndTimer(1)
  \/ EndSlot(1)
  \/ LockStep(1)
  \/ UnlockStep(1)
  \/ ResumeFor0(1)
  \/ ResumeForCounter(1)
  \/ ResumeForPaused(1)
  \/ ResumeForCallback(1)
  \/ IsTransmittingRead(1)
  \/ SetRefreshRate0(1)
  \/ SetRefreshRateBegin(1)
  \/ SetRefreshRateInterval(1)
  \/ SetRefreshRateStore(1)
  \/ TxIsr(0)
  \/ RateTimer(1)

SpecPause == Init /\ [][NextPause]_vars

\* The refresh rate of Sender 1, begun or not, with rates below 1 Hz, and
\* the transmit interrupt and the pacing timer.
NextRate ==
  \/ CallBegin(1)
  \/ CallEnd(1)
  \/ \E rate \in Rates \cup SlowRates : CallSetRefreshRate(1, rate)
  \/ Begin0(1)
  \/ BeginSlot(1)
  \/ BeginXmit(1)
  \/ BeginStart(1)
  \/ BeginActive(1)
  \/ End0(1)
  \/ EndHandler(1)
  \/ EndTimer(1)
  \/ EndSlot(1)
  \/ SetRefreshRate0(1)
  \/ SetRefreshRateBegin(1)
  \/ SetRefreshRateInterval(1)
  \/ SetRefreshRateStore(1)
  \/ TxIsr(0)
  \/ RateTimer(1)

SpecRate == Init /\ [][NextRate]_vars

\* The registry: construction, begin, end, setRefreshRate and destruction
\* of the two Senders of port 0. The interrupt context, which reads the
\* registry and never writes it or began_, is left out.
RegistrySenders == {1, 2}

NextRegistry ==
  \/ \E s \in RegistrySenders : CallBegin(s)
  \/ \E s \in RegistrySenders : CallEnd(s)
  \/ \E s \in RegistrySenders : CallDestroy(s)
  \/ \E s \in RegistrySenders : Construct(s)
  \/ \E s \in RegistrySenders, rate \in {Finite(0), Finite(44)} :
       CallSetRefreshRate(s, rate)
  \/ \E s \in RegistrySenders : Begin0(s)
  \/ \E s \in RegistrySenders : BeginSlot(s)
  \/ \E s \in RegistrySenders : BeginXmit(s)
  \/ \E s \in RegistrySenders : BeginStart(s)
  \/ \E s \in RegistrySenders : BeginActive(s)
  \/ \E s \in RegistrySenders : End0(s)
  \/ \E s \in RegistrySenders : EndHandler(s)
  \/ \E s \in RegistrySenders : EndTimer(s)
  \/ \E s \in RegistrySenders : EndSlot(s)
  \/ \E s \in RegistrySenders : DtorDone(s)
  \/ \E s \in RegistrySenders : SetRefreshRate0(s)
  \/ \E s \in RegistrySenders : SetRefreshRateBegin(s)
  \/ \E s \in RegistrySenders : SetRefreshRateInterval(s)
  \/ \E s \in RegistrySenders : SetRefreshRateStore(s)

SpecRegistry == Init /\ [][NextRegistry]_vars

\* The channel API without interrupts: every write operation on a Sender
\* that is not begun, with arguments at and beyond every bound.
Channels == {-1, 0, 510, 511, 512, 513}

Lengths == {-1, 0, 1, 2, 3, 1073741824, INT_MAX}

ByteValues == {7}

WordValues == {258}

NextArgs ==
  \/ AppIdle /\ \E c \in Channels, v \in ByteValues : CallSet(1, c, v)
  \/ AppIdle /\ \E c \in Channels, v \in WordValues : CallSet16Bit(1, c, v)
  \/ AppIdle /\ \E c \in Channels, v \in ByteValues, n \in Lengths,
                   a \in Ariths : CallSetRange(1, c, v, n, a)
  \/ AppIdle /\ \E c \in Channels, v \in WordValues, n \in Lengths,
                   a \in Ariths : CallSetRange16(1, c, v, n, a)
  \/ CallClear(1)
  \/ Set0(1)
  \/ Set16Bit0(1)
  \/ Set16BitHigh(1)
  \/ Set16BitLow(1)
  \/ SetRange0(1)
  \/ SetRangeCopy(1)
  \/ SetRange16Check(1)
  \/ SetRange16Store(1)
  \/ ClearFill(1)
  \/ LockStep(1)
  \/ UnlockStep(1)

SpecArgs == Init /\ [][NextArgs]_vars

\* The channel API under interrupts: the locked write operations on a
\* Sender that is begun and transmitting.
NextBuf ==
  \/ CallBegin(1)
  \/ Begin0(1)
  \/ BeginSlot(1)
  \/ BeginXmit(1)
  \/ BeginStart(1)
  \/ BeginActive(1)
  \/ \E c \in {0, 511}, v \in WordValues : CallSet16Bit(1, c, v)
  \/ \E c \in {0, 511}, v \in ByteValues : CallSetRange(1, c, v, 2, "wrap")
  \/ \E c \in {0, 509}, v \in WordValues : CallSetRange16(1, c, v, 2, "wrap")
  \/ CallClear(1)
  \/ Set16Bit0(1)
  \/ Set16BitHigh(1)
  \/ Set16BitLow(1)
  \/ SetRange0(1)
  \/ SetRangeCopy(1)
  \/ SetRange16Check(1)
  \/ SetRange16Store(1)
  \/ ClearFill(1)
  \/ LockStep(1)
  \/ UnlockStep(1)
  \/ TxIsr(0)

SpecBuf == Init /\ [][NextBuf]_vars

\* The timing interface of Sender 1, and setBreakSerialParams of Sender 3,
\* which has no handler.
Times == {0, 6, 20, UINT32_MAX}

Bauds == {0, 45500}

Formats == {Format(b, FALSE, FALSE) : b \in SupportedBases}
             \cup {Format("8E1", TRUE, FALSE), Format("8N1", FALSE, TRUE),
                   Format("8E2", FALSE, FALSE)}

NextTiming ==
  \/ \E t \in Times : setBreakTime(1, t)
  \/ \E t \in Times : setMABTime(1, t)
  \/ \E flag \in BOOLEAN : setBreakUseTimerNotSerial(1, flag)
  \/ CallBreakTime(1)
  \/ CallMABTime(1)
  \/ \E s \in {1, 3}, baud \in Bauds, format \in Formats :
       setBreakSerialParams(s, baud, format)

SpecTiming == Init /\ [][NextTiming]_vars

\* Sender 3, whose port is unknown and whose sendHandler_ is null: every
\* public operation, with arguments that are in range.
NextNoHandler ==
  \/ CallBegin(3)
  \/ CallEnd(3)
  \/ CallClear(3)
  \/ \E value \in ByteValues : CallSet(3, 0, value)
  \/ \E value \in WordValues : CallSet16Bit(3, 0, value)
  \/ \E n \in {0, 1}, cb \in Callbacks : CallResumeFor(3, n, cb)
  \/ CallIsTransmitting(3)
  \/ \E rate \in {Finite(0), Finite(44)} : CallSetRefreshRate(3, rate)
  \/ Begin0(3)
  \/ End0(3)
  \/ LockStep(3)
  \/ UnlockStep(3)
  \/ ClearFill(3)
  \/ Set0(3)
  \/ Set16Bit0(3)
  \/ Set16BitHigh(3)
  \/ Set16BitLow(3)
  \/ ResumeFor0(3)
  \/ ResumeForCounter(3)
  \/ ResumeForPaused(3)
  \/ ResumeForCallback(3)
  \/ IsTransmittingRead(3)
  \/ SetRefreshRate0(3)
  \/ SetRefreshRateBegin(3)
  \/ SetRefreshRateInterval(3)
  \/ SetRefreshRateStore(3)
  \/ setBreakSerialParams(3, kDefaultBreakBaud, SERIAL_8N1)

SpecNoHandler == Init /\ [][NextNoHandler]_vars

\* ------------------------------------------------------------------------
\*  Properties
\* ------------------------------------------------------------------------

\* The operations that write the buffer inside a Lock scope.
LockedWrites == {"set16Bit", "setRange", "setRange16", "clear"}

\* Byte i of the buffer buf after the whole call a has written it.
Written(buf, a, i) ==
  LET k == i - a.channel IN
    CASE a.op = "set16Bit" ->
           IF k = 0 THEN HighByte(a.value)
                    ELSE IF k = 1 THEN LowByte(a.value) ELSE Byte(buf, i)
      [] a.op = "setRange" ->
           IF 0 <= k /\ k < a.len THEN Values8(a.value, k) ELSE Byte(buf, i)
      [] a.op = "setRange16" ->
           IF 0 <= k /\ k \div 2 < a.len
             THEN IF k % 2 = 0 THEN HighByte(Values16(a.value, k \div 2))
                               ELSE LowByte(Values16(a.value, k \div 2))
             ELSE Byte(buf, i)
      [] a.op = "clear" -> 0
      [] OTHER -> Byte(buf, i)

\* The buffer buf after the whole call a has written it.
WriteResult(buf, a) ==
  [i \in {j \in Indices : Written(buf, a, j) # 0} |-> Written(buf, a, i)]

\* C1: whenever the transmit interrupt of the port of a begun Sender can
\* run while one of the locked write operations on that Sender is in
\* progress, the output buffer holds what it held before the whole call or
\* what it holds after the whole call, never a part of the stores.
C1_NoTornBuffer ==
  \A s \in Senders :
    ( /\ began[s]
      /\ HasHandler(s)
      /\ txInstances[serialIndex(s)] = s
      /\ IrqCanFire(serialIndex(s))
      /\ stack # <<>>
      /\ Top.s = s
      /\ Top.op \in LockedWrites )
    => outputBuf[s] \in {bufBefore, WriteResult(bufBefore, arg)}

\* A ranged 16-bit write on a begun Sender in its port's slot is between
\* two of its stores while the transmitter is active, with the port's
\* interrupt disabled by the Lock.
C1_Witness ==
  /\ began[1]
  /\ txInstances[0] = 1
  /\ txMode[0] # "INACTIVE"
  /\ ~irqEnabled[0]
  /\ stack # <<>>
  /\ Top.op = "setRange16"
  /\ outputBuf[1] \notin {bufBefore, WriteResult(bufBefore, arg)}

ChannelWrites == {"set", "set16Bit", "setRange", "setRange16"}

BytesPerValue(op) == IF op \in {"set16Bit", "setRange16"} THEN 2 ELSE 1

\* The call a starts at a channel >= 0, has a length >= 0 and ends at or
\* before slot limit: start + (bytes written) <= limit.
InRange(a, limit) ==
  /\ a.channel >= 0
  /\ a.len >= 0
  /\ CASE a.op = "set" -> a.channel + 1 <= limit
       [] a.op = "set16Bit" -> a.channel + 2 <= limit
       [] a.op = "setRange" -> a.len <= limit - a.channel
       [] a.op = "setRange16" -> a.len <= (limit - a.channel) \div 2
       [] OTHER -> FALSE

\* A set or set16Bit call whose sums fit in an int has returned.
ChannelWriteReturned ==
  /\ AppIdle
  /\ arg.op \in ChannelWrites
  /\ ~Overflows(arg.channel, arg.len, BytesPerValue(arg.op))

C3_OverflowRejected ==
  ( /\ arg.op \in {"setRange", "setRange16"}
    /\ arg.arith = "wrap"
    /\ Overflows(arg.channel, arg.len, BytesPerValue(arg.op)) )
  => /\ ~ub
     /\ ret # "true"
     /\ outputBuf[arg.s] = bufBefore
     /\ stack = <<>> \/ Top.pc \in {"setn_0", "set16n_0"}

\* Nothing more can happen to Sender s unless the application acts: no
\* call is in progress, its port's interrupt cannot be taken and its pacing
\* timer is not running.
Quiescent(s) ==
  /\ AppIdle
  /\ ~IrqCanFire(serialIndex(s))
  /\ ~timerArmed[s]

\* What resumeFor(n, cb) under observation on Sender s has led to so far:
\* at most n packets have completed, the callback has run once if n have
\* and not at all before that, after the n-th the Sender is paused with no
\* packet in flight, and the engine comes to rest only after the n-th.
ResumedFor(s) ==
  /\ sentSince[s] <= armedN[s]
  /\ cbSince[s] = (IF sentSince[s] = armedN[s] THEN 1 ELSE 0)
  /\ sentSince[s] = armedN[s] =>
       (paused[s] /\ ~transmitting[s] /\ state[s] = "Idle")
  /\ Quiescent(s) => sentSince[s] = armedN[s]

C5_ResumeForRejectsNegative ==
  [][\A s \in Senders :
       (At(s, "resumeFor0") /\ arg.n < 0 /\ stack' # stack) =>
         /\ ret' = "false"
         /\ stack' = Return
         /\ UNCHANGED <<paused, resumeCounter, doneTXFunc, transmitting,
                        txMode, irqEnabled, timerArmed>>]_vars

\* resumeFor(-1, nullptr) has returned false on a begun, paused Sender with
\* a packet in flight, a resume count pending and a callback stored.
C5_Witness ==
  /\ AppIdle
  /\ arg.op = "resumeFor"
  /\ arg.n < 0
  /\ arg.cb = NULL
  /\ ret = "false"
  /\ began[1]
  /\ paused[1]
  /\ transmitting[1]
  /\ resumeCounter[1] = 1
  /\ doneTXFunc[1] # NULL

\* C6 (as stated): once the begin() of another Sender on the same port has
\* evicted Sender a, that Sender is the occupant of the slot when its
\* begin() returns, and a is stopped: it is not begun, a.isTransmitting()
\* returns false and the slot does not hold a.
C6_EvictedIsStopped ==
  \A a \in Senders :
    (evictedBy[a] # NULL /\ AppIdle) =>
      /\ ~began[a]
      /\ txInstances[serialIndex(a)] # a
      /\ (arg.op = "begin" /\ arg.s = evictedBy[a]) =>
            txInstances[serialIndex(a)] = arg.s
      /\ ~isTransmitting(a)

\* C7: begin() on a begun Sender and end() on a Sender that is not begun
\* return at once and change no field, slot or hardware state; begin() on
\* a Sender that is not begun leaves its packet counter at 0 and installs
\* it in its port's slot; a slot is cleared only by the end() of the Sender
\* it holds, and end() leaves a slot that holds another Sender alone; a
\* destroyed Sender is not begun and in no slot.
C7_BeginEndIdempotent ==
  [][/\ \A s \in Senders :
          /\ (At(s, "begin0") /\ began[s] /\ stack' # stack) =>
               (stack' = Return /\ UNCHANGED <<senderVars, hwVars>>)
          /\ (At(s, "end0") /\ ~began[s] /\ stack' # stack) =>
               (stack' = Return /\ UNCHANGED <<senderVars, hwVars>>)
          /\ (At(s, "begin0") /\ ~began[s] /\ stack' # stack) =>
               (began'[s] /\ packetCount'[s] = 0)
          /\ (At(s, "begin_slot") /\ stack' # stack) =>
               txInstances'[serialIndex(s)] = s
          /\ (At(s, "end_slot") /\ stack' # stack
                /\ txInstances[serialIndex(s)] # s) =>
               txInstances' = txInstances
          /\ ~alive'[s] =>
               (~began'[s] /\ \A p \in Ports : txInstances'[p] # s)
     /\ \A p \in Ports :
          (txInstances[p] # NULL /\ txInstances'[p] = NULL) =>
            (At(txInstances[p], "end_slot") /\ stack' # stack)]_vars

\* The end() that the begin() of Sender 2 ran on Sender 1 has returned and
\* has left the slot to Sender 2.
C7_Witness ==
  /\ stack # <<>>
  /\ Top.op = "begin"
  /\ Top.s = 2
  /\ Top.pc = "begin_xmit"
  /\ evictedBy[1] = 2
  /\ ~began[1]
  /\ txInstances[0] = 2

\* An end() of Sender s is in progress, at one of the statements pcs.
EndAt(s, pcs) ==
  \E i \in DOMAIN stack :
    stack[i].op = "end" /\ stack[i].s = s /\ stack[i].pc \in pcs

\* C8: from the moment end() has stopped the hardware handler the port's
\* interrupt is disabled, so that it is disabled, and the pacing timer
\* stopped, when end() clears the slot; and once end() has returned no
\* interrupt for the Sender can be taken and its timer is not running.
C8_EndMasksBeforeRelease ==
  \A s \in Senders :
    HasHandler(s) =>
      /\ EndAt(s, {"end_timer", "end_slot"}) =>
           (~irqEnabled[serialIndex(s)] /\ ~IrqCanFire(serialIndex(s)))
      /\ EndAt(s, {"end_slot"}) => ~timerArmed[s]
      /\ (~began[s] /\ ~EndAt(s, {"end_handler", "end_timer", "end_slot"})) =>
           /\ ~(IrqCanFire(serialIndex(s))
                  /\ txInstances[serialIndex(s)] = s)
           /\ ~timerArmed[s]

\* end() of a Sender in the middle of a packet is about to clear the slot
\* that still holds it, with the port's interrupt disabled.
C8_Witness ==
  /\ EndAt(1, {"end_slot"})
  /\ txInstances[0] = 1
  /\ state[1] = "Data"
  /\ transmitting[1]
  /\ ~irqEnabled[0]

\* C9: the step of setRefreshRate that finds the rate NaN or negative
\* returns false and leaves the stored rate, the break-to-break interval,
\* the begun status, the registry and the packet counter as they were.
C9_RejectsBadRate ==
  [][\A s \in Senders :
       ( /\ At(s, "rate0")
         /\ arg.rate.k = "nan" \/ (arg.rate.k = "fin" /\ arg.rate.v < 0)
         /\ stack' # stack ) =>
         /\ ret' = "false"
         /\ stack' = Return
         /\ UNCHANGED <<refreshRate, breakToBreakTime, began, txInstances,
                        packetCount>>]_vars

\* setRefreshRate(-1) has returned false on a begun Sender whose stored
\* rate is zero.
C9_Witness ==
  /\ AppIdle
  /\ arg.op = "setRefreshRate"
  /\ arg.rate = Finite(-1)
  /\ ret = "false"
  /\ began[1]
  /\ refreshRate[1] = Finite(0)
  /\ breakToBreakTime[1] = UINT32_MAX

\* C10 (as stated): when setRefreshRate(0) was the last call to change a
\* begun Sender and has returned true, and no packet is in flight,
\* isTransmitting() returns false.
C10_RateZeroStops ==
  \A s \in Senders :
    ( /\ AppIdle
      /\ arg.op = "setRefreshRate"
      /\ arg.s = s
      /\ arg.rate = Finite(0)
      /\ ret = "true"
      /\ began[s]
      /\ ~transmitting[s] )
    => ~isTransmitting(s)

\* A step that is the call op(...) of the timing interface on Sender s.
TimingCall(op, s) ==
  /\ nTiming' = nTiming + 1
  /\ arg'.op = op
  /\ arg'.s = s

\* C11: setBreakSerialParams(baud, format) returns false whenever the
\* framing of the format passed in (its invert bits ignored) is not a
\* supported one, whatever format was stored before the call.
C11_UnsupportedRefused ==
  [][( /\ TimingCall("setBreakSerialParams", 1)
       /\ arg'.format.base \notin SupportedBases ) => ret' = "false"]_vars

\* C11, the other half: a call with a baud that is not 0, no TX-invert bit
\* and a supported framing returns true, whatever format was stored
\* before the call.
C11_SupportedAccepted ==
  [][( /\ TimingCall("setBreakSerialParams", 1)
       /\ arg'.baud # 0
       /\ ~arg'.format.txinv
       /\ arg'.format.base \in SupportedBases ) => ret' = "true"]_vars

\* C12: after setBreakTime(t) the stored BREAK time is t and the adjusted
\* BREAK time is t + kBreakTimerAdjust as a mathematical integer, so it is
\* never smaller than t, for every 32-bit unsigned t.
C12_BreakAdjustNotSmaller ==
  [][\A s \in Senders :
       TimingCall("setBreakTime", s) =>
         /\ breakTime_'[s] = arg'.t
         /\ ~ULess(adjustedBreakTime_'[s], arg'.t)]_vars

\* C12, the MAB half: after setMABTime(t) the stored MAB time is t and the
\* adjusted MAB time is t - kMABTimerAdjust, or 0 where that would be
\* negative; it is never above t.
C12_MABAdjustClamped ==
  [][\A s \in Senders :
       TimingCall("setMABTime", s) =>
         /\ mabTime_'[s] = arg'.t
         /\ ~ULess(arg'.t, adjustedMABTime_'[s])
         /\ IF arg'.t \in 0 .. (kMABTimerAdjust - 1)
              THEN adjustedMABTime_'[s] = 0
              ELSE UAdd(adjustedMABTime_'[s], kMABTimerAdjust) = arg'.t]_vars

\* Byte i of the buffer after a call that writes the n values val(0) ..
\* val(n - 1) of `bytes` bytes each, high byte first, from channel on, to
\* a buffer that held buf.
After(buf, channel, n, bytes, val(_), i) ==
  LET k == i - channel IN
    IF 0 <= k /\ k \div bytes < n
      THEN IF bytes = 1 THEN val(k)
           ELSE IF k % 2 = 0 THEN val(k \div 2) \div 256
                             ELSE val(k \div 2) % 256
      ELSE Byte(buf, i)

\* C13: clear() leaves all 513 bytes 0; a set(channel, value) or
\* set(startChannel, values, len) that has returned leaves, if its range
\* lies in the buffer, each byte of the range at the value written to it
\* and every other byte as it was, and if not, the whole buffer as it was:
\* so after clear() and any sequence of writes a byte is not 0 only if a
\* write with valid bounds targeted it, and it holds the value of the last
\* such write.
C13_ClearThenWrites ==
  (AppIdle /\ arg.op \in {"clear", "set", "setRange"}) =>
    \A i \in Indices :
      Byte(outputBuf[arg.s], i) =
        CASE arg.op = "clear" -> 0
          [] arg.op = "set" ->
               IF InRange(arg, kMaxDMXPacketSize)
                 THEN LET val(k) == arg.value
                      IN After(bufBefore, arg.channel, 1, 1, val, i)
                 ELSE Byte(bufBefore, i)
          [] arg.op = "setRange" ->
               IF InRange(arg, kMaxDMXPacketSize)
                 THEN LET val(k) == Values8(arg.value, k)
                      IN After(bufBefore, arg.channel, arg.len, 1, val, i)
                 ELSE Byte(bufBefore, i)

\* A second write has overwritten one byte of an earlier write with a
\* different value and left another byte of it alone.
C13_Witness ==
  /\ AppIdle
  /\ nCalls = 2
  /\ arg.op = "setRange"
  /\ arg.channel = 511
  /\ arg.len = 1
  /\ Byte(bufBefore, 511) # 0
  /\ Byte(bufBefore, 512) # 0
  /\ Byte(outputBuf[arg.s], 511) = Values8(arg.value, 0)
  /\ Byte(outputBuf[arg.s], 511) # Byte(bufBefore, 511)
  /\ Byte(outputBuf[arg.s], 512) = Byte(bufBefore, 512)

\* C14: a set16Bit(channel, value) that returned true has stored the high
\* byte of value at channel and the low byte at channel + 1; a
\* set16Bit(startChannel, values, len) that returned true has stored the
\* high and low bytes of values[i] at startChannel + 2i and
\* startChannel + 2i + 1 for every i < len; neither has changed a byte
\* outside the range written.
C14_BigEndianPairs ==
  (AppIdle /\ arg.op \in {"set16Bit", "setRange16"} /\ ret = "true") =>
    \A i \in Indices :
      Byte(outputBuf[arg.s], i) =
        IF arg.op = "set16Bit"
          THEN LET val(k) == arg.value
               IN After(bufBefore, arg.channel, 1, 2, val, i)
          ELSE LET val(k) == Values16(arg.value, k)
               IN After(bufBefore, arg.channel, arg.len, 2, val, i)

\* A single 16-bit write at channel 510 has returned true after an earlier
\* write: its two bytes differ and are in place, and byte 512 of the
\* earlier write is as it was.
C14_Witness ==
  /\ AppIdle
  /\ arg.op = "set16Bit"
  /\ ret = "true"
  /\ arg.channel = 510
  /\ Byte(outputBuf[arg.s], 510) = arg.value \div 256
  /\ Byte(outputBuf[arg.s], 511) = arg.value % 256
  /\ Byte(outputBuf[arg.s], 510) # Byte(outputBuf[arg.s], 511)
  /\ Byte(bufBefore, 512) # 0
  /\ Byte(outputBuf[arg.s], 512) = Byte(bufBefore, 512)

\* The interval the claim gives for a rate that setRefreshRate accepts.
IntervalOf(rate) ==
  CASE rate.k = "inf" -> 0
    [] rate.k = "fin" /\ rate.v = 0 -> UINT32_MAX
    [] rate.k = "fin" /\ rate.v > 0 -> 1000000 \div rate.v
    [] rate.k = "rcp" /\ rate.v <= 2147 -> 1000000 * rate.v

\* C15: a setRefreshRate(rate) with a rate that is not NaN and not
\* negative completes, and when it has returned true the stored rate is
\* rate and the BREAK-to-BREAK interval is UINT32_MAX for the rate 0,
\* floor(1000000 / rate) for a finite rate above 0, and 0 for the
\* infinite rate.
C15_IntervalIsFloor ==
  \A s \in Senders :
    (arg.op = "setRefreshRate" /\ arg.s = s) =>
      /\ ~ub
      /\ (AppIdle /\ ret = "true") =>
           /\ refreshRate[s] = arg.rate
           /\ breakToBreakTime[s] = IntervalOf(arg.rate)

\* C15, for the rates whose interval is below 2^32: the interval and the
\* stored rate are as the claim says.
C15_IntervalIsFloorBelow2To32 ==
  \A s \in Senders :
    (arg.op = "setRefreshRate" /\ arg.s = s /\ AppIdle /\ ret = "true") =>
      /\ refreshRate[s] = arg.rate
      /\ breakToBreakTime[s] = IntervalOf(arg.rate)

\* C16: no operation on a Sender without a hardware send handler invokes an
\* operation on the absent handler, before or after begin() and in any
\* order of the calls.
C16_AbsentHandlerNeverUsed ==
  \A s \in Senders : (~HasHandler(s) /\ arg.s = s) => ~ub

\* C16, for a Sender without a handler that is not begun: only
\* setBreakSerialParams reaches the absent handler.
C16_UnusedUntilBegun ==
  \A s \in Senders :
    (~HasHandler(s) /\ arg.s = s /\ ub) =>
      (began[s] \/ arg.op = "setBreakSerialParams")

\* C17: whenever a Sender is not begun and no call on it is under way,
\* after its construction and after every end(), one made in the middle of
\* a packet included, its transmit state is Idle and its transmitting flag
\* is false.
C17_NotBegunIsIdle ==
  \A s \in Senders :
    (alive[s] /\ ~began[s] /\ stack = <<>>) =>
      (state[s] = "Idle" /\ ~transmitting[s])

\* A step of the interrupt context that completes a packet of Sender s.
Completes(s) ==
  /\ stack' = stack
  /\ state[s] = "Data"
  /\ state'[s] = "Idle"

\* C18: each completion of a packet adds exactly 1 to the packet counter,
\* sets the byte index to 0, clears the transmitting flag and makes the
\* state Idle; it invokes the completion callback exactly when the Sender
\* is paused and a callback is set; a packet starts only on a Sender that
\* is not paused, and a paused Sender stays paused until a resume call, so
\* after a completion in the paused state no packet starts before one.
C18_CompletionResets ==
  [][\A s \in Senders :
       /\ Completes(s) =>
            /\ packetCount'[s] = packetCount[s] + 1
            /\ outputBufIndex'[s] = 0
            /\ ~transmitting'[s]
            /\ doneCalled'[s] = (paused[s] /\ doneTXFunc[s] # NULL)
       /\ (doneCalled'[s] # doneCalled[s]) =>
            (Completes(s) \/ At(s, "dtor_done"))
       /\ (state[s] # "Break" /\ state'[s] = "Break") => ~paused[s]
       /\ (paused[s] /\ ~paused'[s]) =>
            (stack # <<>> /\ Top.op = "resumeFor")]_vars

\* The last packet of a resumeFor(n, callback) has completed on the paused
\* Sender 1 and the callback was invoked.
C18_Witness ==
  /\ began[1]
  /\ paused[1]
  /\ doneTXFunc[1] # NULL
  /\ doneCalled[1]
  /\ packetCount[1] > 0
  /\ state[1] = "Idle"
  /\ ~transmitting[1]
  /\ outputBufIndex[1] = 0

\* C19: every packet pushes the bytes of the indices 0, 1, ..,
\* packetSize - 1, each once and in this order: when its BREAK starts the
\* byte index is 0.
C19_PacketStartsAtIndex0 ==
  \A s \in Senders : state[s] = "Break" => outputBufIndex[s] = 0

\* C19, the order within a packet: a BREAK starts only from Idle, the byte
\* index moves only by one push of the byte it points at in the data state
\* or back to 0 at the completion, and the completion comes only when the
\* transmitter has reported transmission complete after the last byte.
C19_OrderWithinPacket ==
  [][\A s \in Senders :
       /\ (state[s] # "Break" /\ state'[s] = "Break") => state[s] = "Idle"
       /\ (outputBufIndex'[s] # outputBufIndex[s] /\ alive'[s]) =>
            \/ /\ state[s] = "Data"
               /\ state'[s] = "Data"
               /\ outputBufIndex[s] < PacketSize
               /\ outputBufIndex'[s] = outputBufIndex[s] + 1
            \/ Completes(s) /\ outputBufIndex'[s] = 0
       /\ Completes(s) =>
            /\ txMode[serialIndex(s)] = "COMPLETING"
            /\ outputBufIndex[s] >= PacketSize]_vars

\* The bit times of BREAK and MAB that the claim gives for the framings.
BitTimes(base) ==
  CASE base = "8N1" -> <<9, 1>>
    [] base = "8E1" -> <<10, 1>>
    [] base = "8O1" -> <<9, 2>>
    [] base = "8N2" -> <<9, 2>>
    [] base = "7E1" -> <<9, 1>>
    [] base = "7O1" -> <<8, 2>>

\* C20: in serial-framing mode breakTime() is (B * 1000000) div breakBaud
\* and mabTime() is (M * 1000000) div breakBaud, (B, M) being the bit
\* times of the stored format with its invert bits ignored, whatever was
\* passed to setBreakTime and setMABTime; in timer mode they are the stored
\* BREAK and MAB times, which only setBreakTime and setMABTime change,
\* each to its argument, so that setBreakSerialParams does not change
\* them.
C20_TimesFollowMode ==
  /\ []( \A s \in Senders :
          /\ ( /\ ~breakUseTimer_[s]
               /\ breakFormat_[s].base \in
                    {"8N1", "8E1", "8O1", "8N2", "7E1", "7O1"} ) =>
               /\ breakTime(s) =
                    (BitTimes(breakFormat_[s].base)[1] * 1000000)
                      \div breakBaud_[s]
               /\ mabTime(s) =
                    (BitTimes(breakFormat_[s].base)[2] * 1000000)
                      \div breakBaud_[s]
          /\ breakUseTimer_[s] =>
               (breakTime(s) = breakTime_[s] /\ mabTime(s) = mabTime_[s])
          /\ (arg.s = s /\ arg.op = "breakTime") => retTime = breakTime(s)
          /\ (arg.s = s /\ arg.op = "mabTime") => retTime = mabTime(s) )
  /\ [][\A s \in Senders :
          /\ (breakTime_'[s] # breakTime_[s]) =>
               (TimingCall("setBreakTime", s) /\ breakTime_'[s] = arg'.t)
          /\ (mabTime_'[s] # mabTime_[s]) =>
               (TimingCall("setMABTime", s) /\ mabTime_'[s] = arg'.t)
          /\ TimingCall("setBreakTime", s) => breakTime_'[s] = arg'.t
          /\ TimingCall("setMABTime", s) => mabTime_'[s] = arg'.t]_vars

\* In serial-framing mode with the format 8E1 and its RX-invert bit stored
\* at 45500 baud, after a setBreakTime, breakTime() has returned
\* 10000000 div 45500.
C20_Witness ==
  /\ arg.op = "breakTime"
  /\ arg.s = 1
  /\ ~breakUseTimer_[1]
  /\ breakFormat_[1] = Format("8E1", TRUE, FALSE)
  /\ breakBaud_[1] = 45500
  /\ breakTime_[1] # kDefaultBreakTime
  /\ retTime = 219

\* A step in which the setRefreshRate call on Sender s returns.
RateReturns(s) ==
  /\ stack # <<>>
  /\ stack' = <<>>
  /\ Top.op = "setRefreshRate"
  /\ Top.s = s

\* C21: setRefreshRate never changes whether a Sender is begun: when the
\* call returns the Sender is begun exactly if it was begun when the call
\* was made; a begun Sender whose rate goes from 0 to a nonzero rate is
\* begun and in its port's slot afterwards, and a Sender that was not
\* begun is not begun afterwards and in no slot.
C21_BegunUnchanged ==
  [][\A s \in Senders :
       RateReturns(s) =>
         /\ began'[s] = beganBefore
         /\ (~beganBefore /\ HasHandler(s)) =>
              txInstances'[serialIndex(s)] # s]_vars

\* C21, for a Sender that was begun when the call was made: it is begun
\* when the call returns, and in its port's slot.
C21_BegunStaysBegun ==
  [][\A s \in Senders :
       (RateReturns(s) /\ beganBefore) =>
         (began'[s] /\ txInstances'[serialIndex(s)] = s)]_vars

\* C22: whenever no call is under way, after any sequence of begin(),
\* end(), setRefreshRate() and destructor calls on the Senders, the slot of
\* every port is null or holds a begun Sender of that port, and every
\* begun Sender of a known port is in the slot of its port: at most one
\* Sender of a port is begun.
C22_RegistryInvariant ==
  stack = <<>> =>
    /\ \A p \in Ports :
         txInstances[p] # NULL =>
           /\ alive[txInstances[p]]
           /\ began[txInstances[p]]
           /\ serialIndex(txInstances[p]) = p
    /\ \A s \in Senders :
         (alive[s] /\ began[s] /\ serialIndex(s) \in Ports) =>
           txInstances[serialIndex(s)] = s

\* Sender 2 has taken the slot of port 0 from Sender 1 through a
\* setRefreshRate that left rate 0: Sender 1 is ended, Sender 2 is begun.
C22_Witness ==
  /\ stack = <<>>
  /\ arg.op = "setRefreshRate"
  /\ arg.s = 2
  /\ txInstances[0] = 2
  /\ began[2]
  /\ evictedBy[1] = 2
  /\ ~began[1]

\* The begin() of Sender s has written the slot and has not yet reset the
\* transmit state or not yet started the handler.
BeginUnfinished(s) ==
  \E k \in 1 .. Len(stack) :
    /\ stack[k].op = "begin"
    /\ stack[k].s = s
    /\ stack[k].pc \in {"begin_xmit", "begin_start"}

\* C23: the transmit interrupt of a port is dispatched only to a Sender
\* whose begin() has reset its transmit state and started its handler:
\* while the slot holds a Sender whose begin() has not come that far, one
\* that is evicting another included, the port's interrupt cannot fire.
C23_NoDispatchBeforeStart ==
  \A s \in Senders :
    ( /\ HasHandler(s)
      /\ txInstances[serialIndex(s)] = s
      /\ BeginUnfinished(s) ) => ~IrqCanFire(serialIndex(s))

\* C24: at every point where the transmit interrupt or the pacing timer of
\* a begun Sender can run, the break-to-break interval is the one of the
\* stored refresh rate: UINT32_MAX for the rate 0, floor(1000000 / rate)
\* for a finite rate, 0 for the infinite rate.
C24_RateAndIntervalAgree ==
  \A s \in Senders :
    ( /\ began[s]
      /\ HasHandler(s)
      /\ txInstances[serialIndex(s)] = s
      /\ IrqCanFire(serialIndex(s)) \/ timerArmed[s] )
    => breakToBreakTime[s] = IntervalOf(refreshRate[s])

\* C24, second half: when the end(); begin() of a setRefreshRate that
\* leaves the rate 0 has started the engine again, the interval of the
\* rate 0 is no longer stored.
C24_NoRestartWithOldPacing ==
  \A s \in Senders :
    ( /\ At(s, "rate_btb")
      /\ IsZero(refreshRate[s])
      /\ began[s]
      /\ IrqCanFire(serialIndex(s)) )
    => breakToBreakTime[s] # UINT32_MAX

\* C24, between calls: whenever no call is under way the interval is the
\* one of the stored rate.
C24_AgreeBetweenCalls ==
  \A s \in Senders :
    stack = <<>> => breakToBreakTime[s] = IntervalOf(refreshRate[s])

====
